---------------------------- MODULE Spec2Model ----------------------------
(***************************************************************************)
(* Model of run_ipf (src/ipf_allocation.py, lines 194-276): the Iterative  *)
(* Proportional Fitting solver that rescales county-level enrollment       *)
(* estimates against insurer x county (IC) and metal tier x county (MC)    *)
(* control totals, one year-partition after the other.                     *)
(*                                                                         *)
(* Numbers.  The float64 columns are modelled as exact rationals <<n, d>>  *)
(* in lowest terms (d > 0); np.inf is <<1, 0>>.  Quantities (estimates,    *)
(* targets, group sums) are counted in units of 10^(-unitExp), so that a   *)
(* run with unitExp = EpsExp has cells at and below the zero-guard 1e-10   *)
(* while a run with unitExp = 0 has ordinary enrollment counts.  Factors   *)
(* and relative changes are ratios of quantities and carry no unit.        *)
(***************************************************************************)
EXTENDS Integers, Sequences, FiniteSets, TLC

VARIABLES
    alloc,             \* input: the Cell Table, a sequence of rows
    county_insurer,    \* input: IC target rows (year, insurer, county, target_ic)
    county_metal,      \* input: MC target rows (year, metal_tier, county, target_mc)
    max_iter,          \* input: iteration cap
    unitExp,           \* quantities are multiples of 10^(-unitExp)
    pc,                \* position of run_ipf
    yi,                \* number of years the outer loop has taken from `years`
    df,                \* the current year's rows
    ic_targets,        \* per-row IC target of the current year
    mc_targets,        \* per-row MC target of the current year
    converged,
    final_max_change,
    iteration,
    prev_est,          \* snapshot taken at the top of the iteration
    group_sums,        \* per-row group sum computed by the last step
    results,           \* list of finished year tables
    printed,           \* per-year solver diagnostics
    allocated          \* the returned table

vars == <<alloc, county_insurer, county_metal, max_iter, unitExp, pc, yi, df,
          ic_targets, mc_targets, converged, final_max_change, iteration,
          prev_est, group_sums, results, printed, allocated>>

----------------------------------------------------------------------------
(* Bounds of the model and program constants *)

MaxIter == 3
MaxEst == 2
EpsExp == 10
TolNum == 1
TolDen == 1000
ExampleMaxIter == 100

----------------------------------------------------------------------------
(* Rational arithmetic standing for float64 *)

Abs(x) == IF x < 0 THEN -x ELSE x

RECURSIVE GCD(_, _)
GCD(a, b) == IF b = 0 THEN a ELSE GCD(b, a % b)

Norm(n, d) ==
    IF n = 0 THEN <<0, 1>>
    ELSE LET g == GCD(Abs(n), d) IN <<n \div g, d \div g>>

Zero == <<0, 1>>
Inf == <<1, 0>>
Q(n) == <<n, 1>>

RAdd(a, b) == Norm(a[1] * b[2] + b[1] * a[2], a[2] * b[2])
RSub(a, b) == Norm(a[1] * b[2] - b[1] * a[2], a[2] * b[2])
RMul(a, b) == Norm(a[1] * b[1], a[2] * b[2])
\* b > 0 at every call: the divisor is a group sum or a prior above the guard
RDiv(a, b) == Norm(a[1] * b[2], a[2] * b[1])
RAbs(a) == <<Abs(a[1]), a[2]>>
RLt(a, b) == a[1] * b[2] < b[1] * a[2]
RMax(a, b) == IF RLt(a, b) THEN b ELSE a

tol == <<TolNum, TolDen>>

RECURSIVE DivPow10(_, _)
DivPow10(d, e) == IF e = 0 THEN d ELSE DivPow10(d \div 10, e - 1)

\* q * 10^(-unitExp) > 1e-10, i.e. n * 10^(EpsExp - unitExp) > d
GtEps(q) == q[1] > DivPow10(q[2], EpsExp - unitExp)

----------------------------------------------------------------------------
(* Helpers of run_ipf *)

RECURSIVE SortSet(_)
SortSet(S) ==
    IF S = {} THEN <<>>
    ELSE LET m == CHOOSE x \in S : \A y \in S : x <= y
         IN <<m>> \o SortSet(S \ {m})

years == SortSet({alloc[i].year : i \in 1..Len(alloc)})

YearRows(tbl, y) == SelectSeq(tbl, LAMBDA r : r.year = y)

IcIndex(y) ==
    LET rows == {r \in county_insurer : r.year = y}
    IN [k \in {<<r.insurer, r.county>> : r \in rows} |->
          (CHOOSE r \in rows : <<r.insurer, r.county>> = k).target_ic]

McIndex(y) ==
    LET rows == {r \in county_metal : r.year = y}
    IN [k \in {<<r.metal_tier, r.county>> : r \in rows} |->
          (CHOOSE r \in rows : <<r.metal_tier, r.county>> = k).target_mc]

\* faulty variant: an absent key defaults to 1 instead of 0
LookupAbsentOne(idx, k) == IF k \in DOMAIN idx THEN idx[k] ELSE Q(1)

Lookup(idx, k) == IF k \in DOMAIN idx THEN idx[k] ELSE Zero

IcKeys(rows) == [i \in 1..Len(rows) |-> <<rows[i].insurer, rows[i].county>>]
McKeys(rows) == [i \in 1..Len(rows) |-> <<rows[i].metal_tier, rows[i].county>>]

\* an array held as a tuple of its values, each computed once
Vec(f) == f \o <<>>

Est(rows) == Vec([i \in 1..Len(rows) |-> rows[i].enrollment_est])

SetEst(rows, est) ==
    [i \in 1..Len(rows) |-> [rows[i] EXCEPT !.enrollment_est = est[i]]]

RECURSIVE SumWhere(_, _, _, _)
SumWhere(est, keys, k, n) ==
    IF n = 0 THEN Zero
    ELSE LET rest == SumWhere(est, keys, k, n - 1)
         IN IF keys[n] = k THEN RAdd(rest, est[n]) ELSE rest

TransformSum(est, keys) ==
    Vec([i \in 1..Len(est) |-> SumWhere(est, keys, keys[i], Len(est))])

\* faulty variant: the relative correction (target - sum) / sum as factor
FactorsCorrection(sums, targets) ==
    Vec([i \in 1..Len(sums) |->
            IF GtEps(sums[i]) THEN RDiv(RSub(targets[i], sums[i]), sums[i])
            ELSE Zero])

\* faulty variant: a group without mass is left as it is
FactorsKeepVanishing(sums, targets) ==
    Vec([i \in 1..Len(sums) |->
            IF GtEps(sums[i]) THEN RDiv(targets[i], sums[i]) ELSE Q(1)])

Factors(sums, targets) ==
    Vec([i \in 1..Len(sums) |->
            IF GtEps(sums[i]) THEN RDiv(targets[i], sums[i]) ELSE Zero])

Scale(est, factors) ==
    Vec([i \in 1..Len(est) |-> RMul(est[i], factors[i])])

\* faulty variant: the absolute value is forgotten
RelChangeSigned(cur, prev) == RDiv(RSub(cur, prev), prev)

\* faulty variant: the change is taken relative to the current estimate
RelChangeOverCurrent(cur, prev) ==
    IF cur[1] = 0 THEN Inf ELSE RDiv(RAbs(RSub(cur, prev)), cur)

RelChange(cur, prev) == RDiv(RAbs(RSub(cur, prev)), prev)

\* faulty variant: every cell with a positive prior counts
RECURSIVE MaxRelAnyPositive(_, _, _)
MaxRelAnyPositive(cur, prev, n) ==
    IF n = 0 THEN Zero
    ELSE LET rest == MaxRelAnyPositive(cur, prev, n - 1)
         IN IF prev[n][1] > 0 THEN RMax(rest, RelChange(cur[n], prev[n]))
            ELSE rest

RECURSIVE MaxRel(_, _, _)
MaxRel(cur, prev, n) ==
    IF n = 0 THEN Zero
    ELSE LET rest == MaxRel(cur, prev, n - 1)
         IN IF GtEps(prev[n]) THEN RMax(rest, RelChange(cur[n], prev[n]))
            ELSE rest

MaxChange(cur, prev) == MaxRel(cur, prev, Len(prev))

Clip(q) == IF q[1] < 0 THEN Zero ELSE q

RECURSIVE Concat(_)
Concat(tables) ==
    IF tables = <<>> THEN <<>> ELSE Head(tables) \o Concat(Tail(tables))

ClipTable(rows) ==
    [i \in 1..Len(rows) |->
        [rows[i] EXCEPT !.enrollment_est = Clip(rows[i].enrollment_est)]]

----------------------------------------------------------------------------
(* Steps of run_ipf *)

\* faulty variant: converged and final_max_change are set once, before the
\* year loop, and not again for each year
StartYearNoReset ==
    /\ pc = "for_yr"
    /\ yi < Len(years)
    /\ yi' = yi + 1
    /\ LET yr == years[yi + 1]
           d == YearRows(alloc, yr)
       IN /\ df' = d
          /\ ic_targets' = [i \in 1..Len(d) |->
                               Lookup(IcIndex(yr), IcKeys(d)[i])]
          /\ mc_targets' = [i \in 1..Len(d) |->
                               Lookup(McIndex(yr), McKeys(d)[i])]
          /\ iteration' = 0
          /\ pc' = "for_iter"
    /\ UNCHANGED <<alloc, county_insurer, county_metal, max_iter, unitExp,
                   converged, final_max_change, prev_est, group_sums, results,
                   printed, allocated>>

StartYear ==
    /\ pc = "for_yr"
    /\ yi < Len(years)
    /\ yi' = yi + 1
    /\ LET yr == years[yi + 1]
           d == YearRows(alloc, yr)
       IN /\ df' = d
          /\ IF Len(d) = 0
             THEN /\ pc' = "for_yr"
                  /\ UNCHANGED <<ic_targets, mc_targets, converged,
                                 final_max_change, iteration>>
             ELSE /\ ic_targets' = [i \in 1..Len(d) |->
                                       Lookup(IcIndex(yr), IcKeys(d)[i])]
                  /\ mc_targets' = [i \in 1..Len(d) |->
                                       Lookup(McIndex(yr), McKeys(d)[i])]
                  /\ converged' = FALSE
                  /\ final_max_change' = Inf
                  /\ iteration' = 0
                  /\ pc' = "for_iter"
    /\ UNCHANGED <<alloc, county_insurer, county_metal, max_iter, unitExp,
                   prev_est, group_sums, results, printed, allocated>>

IterBegin ==
    /\ pc = "for_iter"
    /\ iteration < max_iter
    /\ iteration' = iteration + 1
    /\ prev_est' = Est(df)
    /\ pc' = "stepA"
    /\ UNCHANGED <<alloc, county_insurer, county_metal, max_iter, unitExp, yi,
                   df, ic_targets, mc_targets, converged, final_max_change,
                   group_sums, results, printed, allocated>>

StepA ==
    /\ pc = "stepA"
    /\ LET sums == TransformSum(Est(df), IcKeys(df))
       IN /\ group_sums' = sums
          /\ df' = SetEst(df, Scale(Est(df), Factors(sums, ic_targets)))
    /\ pc' = "stepB"
    /\ UNCHANGED <<alloc, county_insurer, county_metal, max_iter, unitExp, yi,
                   ic_targets, mc_targets, converged, final_max_change,
                   iteration, prev_est, results, printed, allocated>>

\* faulty variant: Step B divides the IC targets by the MC group sums
StepBIcTargets ==
    /\ pc = "stepB"
    /\ LET sums == TransformSum(Est(df), McKeys(df))
       IN /\ group_sums' = sums
          /\ df' = SetEst(df, Scale(Est(df), Factors(sums, ic_targets)))
    /\ pc' = "check"
    /\ UNCHANGED <<alloc, county_insurer, county_metal, max_iter, unitExp, yi,
                   ic_targets, mc_targets, converged, final_max_change,
                   iteration, prev_est, results, printed, allocated>>

StepB ==
    /\ pc = "stepB"
    /\ LET sums == TransformSum(Est(df), McKeys(df))
       IN /\ group_sums' = sums
          /\ df' = SetEst(df, Scale(Est(df), Factors(sums, mc_targets)))
    /\ pc' = "check"
    /\ UNCHANGED <<alloc, county_insurer, county_metal, max_iter, unitExp, yi,
                   ic_targets, mc_targets, converged, final_max_change,
                   iteration, prev_est, results, printed, allocated>>

\* faulty variant: final_max_change is recorded after the break test only
ConvergenceCheckStale ==
    /\ pc = "check"
    /\ LET max_change == MaxChange(Est(df), prev_est)
       IN IF RLt(max_change, tol)
          THEN /\ converged' = TRUE
               /\ printed' = Append(printed,
                     [year |-> years[yi], converged |-> TRUE,
                      iterations |-> iteration, change |-> max_change])
               /\ pc' = "after_loop"
               /\ UNCHANGED final_max_change
          ELSE /\ final_max_change' = max_change
               /\ UNCHANGED <<converged, printed>>
               /\ pc' = "for_iter"
    /\ UNCHANGED <<alloc, county_insurer, county_metal, max_iter, unitExp, yi,
                   df, ic_targets, mc_targets, iteration, prev_est,
                   group_sums, results, allocated>>

ConvergenceCheck ==
    /\ pc = "check"
    /\ LET max_change == MaxChange(Est(df), prev_est)
       IN /\ final_max_change' = max_change
          /\ IF RLt(max_change, tol)
             THEN /\ converged' = TRUE
                  /\ printed' = Append(printed,
                        [year |-> years[yi], converged |-> TRUE,
                         iterations |-> iteration, change |-> max_change])
                  /\ pc' = "after_loop"
             ELSE /\ UNCHANGED <<converged, printed>>
                  /\ pc' = "for_iter"
    /\ UNCHANGED <<alloc, county_insurer, county_metal, max_iter, unitExp, yi,
                   df, ic_targets, mc_targets, iteration, prev_est,
                   group_sums, results, allocated>>

LoopExhausted ==
    /\ pc = "for_iter"
    /\ iteration >= max_iter
    /\ pc' = "after_loop"
    /\ UNCHANGED <<alloc, county_insurer, county_metal, max_iter, unitExp, yi,
                   df, ic_targets, mc_targets, converged, final_max_change,
                   iteration, prev_est, group_sums, results, printed,
                   allocated>>

\* faulty variant: a year that did not converge is warned about and dropped
EndYearDropsNonConverged ==
    /\ pc = "after_loop"
    /\ printed' = IF ~converged
                  THEN Append(printed,
                         [year |-> years[yi], converged |-> FALSE,
                          iterations |-> max_iter,
                          change |-> final_max_change])
                  ELSE printed
    /\ results' = IF converged THEN Append(results, df) ELSE results
    /\ pc' = "for_yr"
    /\ UNCHANGED <<alloc, county_insurer, county_metal, max_iter, unitExp, yi,
                   df, ic_targets, mc_targets, converged, final_max_change,
                   iteration, prev_est, group_sums, allocated>>

EndYear ==
    /\ pc = "after_loop"
    /\ printed' = IF ~converged
                  THEN Append(printed,
                         [year |-> years[yi], converged |-> FALSE,
                          iterations |-> max_iter,
                          change |-> final_max_change])
                  ELSE printed
    /\ results' = Append(results, df)
    /\ pc' = "for_yr"
    /\ UNCHANGED <<alloc, county_insurer, county_metal, max_iter, unitExp, yi,
                   df, ic_targets, mc_targets, converged, final_max_change,
                   iteration, prev_est, group_sums, allocated>>

Finish ==
    /\ pc = "for_yr"
    /\ yi = Len(years)
    /\ allocated' = ClipTable(Concat(results))
    /\ pc' = "done"
    /\ UNCHANGED <<alloc, county_insurer, county_metal, max_iter, unitExp, yi,
                   df, ic_targets, mc_targets, converged, final_max_change,
                   iteration, prev_est, group_sums, results, printed>>

Next ==
    \/ StartYear
    \/ IterBegin
    \/ StepA
    \/ StepB
    \/ ConvergenceCheck
    \/ LoopExhausted
    \/ EndYear
    \/ Finish

----------------------------------------------------------------------------
(* Inputs *)

Row(y, c, ins, m, v) ==
    [year |-> y, county |-> c, insurer |-> ins, metal_tier |-> m,
     enrollment_est |-> Q(v)]

IcRows(y, ins, c, ts) ==
    {[year |-> y, insurer |-> ins, county |-> c, target_ic |-> Q(t)] : t \in ts}

McRows(y, m, c, ts) ==
    {[year |-> y, metal_tier |-> m, county |-> c, target_mc |-> Q(t)] : t \in ts}

\* at most one target per key: absent, or one value
Opt(S) == {{}} \cup {{t} : t \in S}

EstVals == 0..MaxEst

Locals ==
    /\ pc = "for_yr"
    /\ yi = 0
    /\ df = <<>>
    /\ ic_targets = <<>>
    /\ mc_targets = <<>>
    /\ converged = FALSE
    /\ final_max_change = Inf
    /\ iteration = 0
    /\ prev_est = <<>>
    /\ group_sums = <<>>
    /\ results = <<>>
    /\ printed = <<>>
    /\ allocated = <<>>

Init ==
    /\ \E e1, e2, e3 \in EstVals, f1 \in {1000, 2000} :
          alloc = << Row(2020, "A", "X", "Bronze", e1),
                     Row(2020, "A", "X", "Silver", e2),
                     Row(2020, "A", "Y", "Silver", e3),
                     Row(2021, "A", "X", "Bronze", f1) >>
    /\ \E tx \in Opt({0, 2}), ty \in Opt({2}), ux \in {3} :
          county_insurer = IcRows(2020, "X", "A", tx)
                           \cup IcRows(2020, "Y", "A", ty)
                           \cup IcRows(2021, "X", "A", {ux})
    /\ \E tb \in {2, 3}, ts \in Opt({0, 3}), ub \in {1001, 2001} :
          county_metal = McRows(2020, "Bronze", "A", {tb})
                         \cup McRows(2020, "Silver", "A", ts)
                         \cup McRows(2021, "Bronze", "A", {ub})
    /\ max_iter \in 1..MaxIter
    /\ unitExp \in {0, EpsExp}
    /\ Locals

Spec == Init /\ [][Next]_vars

----------------------------------------------------------------------------
(* The end-to-end example of the specification, with nearby inputs *)

InitExample ==
    /\ \E a, b \in {400, 500} :
          alloc = << Row(2020, "A", "X", "Bronze", a),
                     Row(2020, "B", "X", "Bronze", b) >>
    /\ \E ta \in {300, 350}, tb \in {500} :
          county_insurer = IcRows(2020, "X", "A", {ta})
                           \cup IcRows(2020, "X", "B", {tb})
    /\ \E ua \in {350}, ub \in {450, 500} :
          county_metal = McRows(2020, "Bronze", "A", {ua})
                         \cup McRows(2020, "Bronze", "B", {ub})
    /\ max_iter \in {1, ExampleMaxIter}
    /\ unitExp = 0
    /\ Locals

SpecExample == InitExample /\ [][Next]_vars

----------------------------------------------------------------------------
(* Vocabulary of the properties *)

AfterFirstStepA ==
    \/ pc \in {"stepB", "check", "after_loop"} /\ iteration >= 1
    \/ pc = "for_iter" /\ iteration >= 1
    \/ pc = "stepA" /\ iteration >= 2

IterationDone == pc \in {"for_iter", "after_loop"} /\ iteration >= 1

IsPos(q) == q[1] > 0
IsNeg(q) == q[1] < 0

\* the IC target of a row as the input table states it: no row, or a 0
NoIcTarget(r) ==
    \A t \in county_insurer :
        (t.year = r.year /\ t.insurer = r.insurer /\ t.county = r.county)
            => t.target_ic = Zero

McTargetIs(r, q) ==
    IF \E t \in county_metal : t.year = r.year /\ t.metal_tier = r.metal_tier
                               /\ t.county = r.county
    THEN \E t \in county_metal : /\ t.year = r.year
                                 /\ t.metal_tier = r.metal_tier
                                 /\ t.county = r.county
                                 /\ t.target_mc = q
    ELSE q = Zero

SameIc(r, s) == r.insurer = s.insurer /\ r.county = s.county
SameMc(r, s) == r.metal_tier = s.metal_tier /\ r.county = s.county

McMass(i) == SumWhere(Est(df), McKeys(df), McKeys(df)[i], Len(df))
IcMass(i) == SumWhere(Est(df), IcKeys(df), IcKeys(df)[i], Len(df))

----------------------------------------------------------------------------
(* Properties *)

AllNonNeg(rows) == \A i \in 1..Len(rows) : ~IsNeg(rows[i].enrollment_est)

\* C1 (mass non-negativity): with non-negative initial estimates and targets,
\* every estimate is >= 0 in every state of the run, after each Step A and
\* each Step B, and the final clamp at zero changes no value.
C1_MassNonNegative ==
    /\ AllNonNeg(df)
    /\ \A k \in 1..Len(results) : AllNonNeg(results[k])
    /\ pc = "done" => allocated = Concat(results)

C1_Witness ==
    /\ pc = "done"
    /\ \E i \in 1..Len(allocated) : IsPos(allocated[i].enrollment_est)
    /\ \E k \in 1..Len(printed) : printed[k].iterations >= 2

\* C2 (zero-group absorption): once Step A has run in a year, every cell of
\* an (insurer, county) group whose IC target is 0 or absent is exactly 0,
\* and it is still 0 after every later step and in the year's result.
C2_ZeroGroupAbsorption ==
    /\ AfterFirstStepA =>
          \A i \in 1..Len(df) :
              NoIcTarget(df[i]) => df[i].enrollment_est = Zero
    /\ \A k \in 1..Len(results) : \A i \in 1..Len(results[k]) :
          NoIcTarget(results[k][i]) => results[k][i].enrollment_est = Zero

C2_Witness ==
    /\ pc = "check"
    /\ iteration = 2
    /\ \E i \in 1..Len(df) :
          /\ NoIcTarget(df[i])
          /\ df[i].enrollment_est = Zero
          /\ \E j \in 1..Len(alloc) :
                /\ alloc[j].year = df[i].year
                /\ SameIc(alloc[j], df[i])
                /\ IsPos(alloc[j].enrollment_est)
          /\ \A t \in county_insurer : ~(t.year = df[i].year /\ SameIc(t, df[i]))

\* C3 (convergence stop): when the year's loop has ended, converged holds
\* exactly if the last computed change is below tol; the loop leaves at the
\* first iteration whose change is below tol and starts no iteration after it.
C3_ConvergenceStop ==
    /\ pc = "after_loop" => (converged <=> RLt(final_max_change, tol))
    /\ (pc = "after_loop" /\ iteration >= 1) =>
          final_max_change = MaxChange(Est(df), prev_est)
    /\ converged => pc \in {"after_loop", "for_yr", "done"}
    /\ (pc \in {"stepA", "stepB", "check"} /\ iteration >= 2) =>
          ~RLt(final_max_change, tol)
    /\ (pc = "after_loop" /\ ~converged) => iteration = max_iter

C3_Witness ==
    /\ pc = "after_loop"
    /\ converged
    /\ iteration < max_iter
    /\ IsPos(final_max_change)

\* One full solver iteration (Step A, then Step B) applied to an estimate
\* vector of the given rows.
OneIteration(est, rows, ict, mct) ==
    LET a == Scale(est, Factors(TransformSum(est, IcKeys(rows)), ict))
    IN Scale(a, Factors(TransformSum(a, McKeys(rows)), mct))

\* A year solved on its own: only its rows and its targets are read.
IsoIc(rows, y) ==
    Vec([i \in 1..Len(rows) |->
        LET m == {t \in county_insurer : t.year = y /\ SameIc(t, rows[i])}
        IN IF m = {} THEN Zero ELSE (CHOOSE t \in m : TRUE).target_ic])

IsoMc(rows, y) ==
    Vec([i \in 1..Len(rows) |->
        LET m == {t \in county_metal : t.year = y /\ SameMc(t, rows[i])}
        IN IF m = {} THEN Zero ELSE (CHOOSE t \in m : TRUE).target_mc])

RECURSIVE IsoSolve(_, _, _, _, _, _)
IsoSolve(est, rows, ict, mct, k, last) ==
    IF k = max_iter
    THEN [est |-> est, converged |-> FALSE, iterations |-> k, change |-> last]
    ELSE LET nxt == OneIteration(est, rows, ict, mct)
             d == MaxChange(nxt, est)
         IN IF RLt(d, tol)
            THEN [est |-> nxt, converged |-> TRUE, iterations |-> k + 1,
                  change |-> d]
            ELSE IsoSolve(nxt, rows, ict, mct, k + 1, d)

Alone(y) ==
    LET rows == YearRows(alloc, y)
    IN IsoSolve(Est(rows), rows, IsoIc(rows, y), IsoMc(rows, y), 0, Inf)

ReportsOf(y) == {k \in 1..Len(printed) : printed[k].year = y}

ExampleInput ==
    /\ alloc = << Row(2020, "A", "X", "Bronze", 500),
                  Row(2020, "B", "X", "Bronze", 500) >>
    /\ county_insurer = IcRows(2020, "X", "A", {300})
                        \cup IcRows(2020, "X", "B", {500})
    /\ county_metal = McRows(2020, "Bronze", "A", {350})
                      \cup McRows(2020, "Bronze", "B", {450})
    /\ max_iter = ExampleMaxIter
    /\ unitExp = 0

ExampleSteps ==
    /\ (pc = "stepB" /\ iteration = 1) => Est(df) = <<Q(300), Q(500)>>
    /\ (pc = "check" /\ iteration = 1) => Est(df) = <<Q(350), Q(450)>>
    /\ pc = "after_loop" => /\ converged
                            /\ Est(df) = <<Q(350), Q(450)>>
    /\ pc = "done" => Est(allocated) = <<Q(350), Q(450)>>

\* C5 as stated (end-to-end example): the first iteration gives (300, 500)
\* after Step A and (350, 450) after Step B, its relative change is about
\* 0.17, above tol, and the run ends converged on (350, 450).
C5_ExampleAsStated ==
    ExampleInput =>
        /\ ExampleSteps
        /\ (pc = "for_iter" /\ iteration = 1) =>
              /\ RLt(<<16, 100>>, final_max_change)
              /\ RLt(final_max_change, <<18, 100>>)

\* C5 amended (end-to-end example): the first iteration gives (300, 500)
\* after Step A and (350, 450) after Step B, its relative change is 0.3
\* (|350 - 500| / 500, against the snapshot taken before Step A), above tol;
\* the second iteration changes nothing and the run ends converged at
\* iteration 2 with change 0 on (350, 450).
C5_Example ==
    ExampleInput =>
        /\ ExampleSteps
        /\ (pc = "for_iter" /\ iteration = 1) =>
              /\ final_max_change = <<3, 10>>
              /\ ~converged
        /\ pc = "after_loop" => /\ iteration = 2
                                /\ final_max_change = Zero

C5_Witness ==
    /\ ExampleInput
    /\ pc = "done"
    /\ printed = << [year |-> 2020, converged |-> TRUE, iterations |-> 2,
                     change |-> Zero] >>

ExtraIteration == OneIteration(Est(df), df, ic_targets, mc_targets)

\* C6 as stated (idempotence near convergence): on a table on which the
\* solver stopped converged, one more full iteration has a relative change
\* below tol.
C6_IdempotenceAsStated ==
    (pc = "after_loop" /\ converged) =>
        RLt(MaxChange(ExtraIteration, Est(df)), tol)

\* C6 amended: on a table on which the solver stopped with a relative change
\* of exactly 0, and where every cell's snapshot in that last iteration was
\* either 0 or above the zero-guard, one more full iteration leaves every
\* estimate unchanged (so its relative change is 0, below tol).
C6_IdempotenceAtFixpoint ==
    (/\ pc = "after_loop"
     /\ converged
     /\ final_max_change = Zero
     /\ \A i \in 1..Len(prev_est) :
           prev_est[i] = Zero \/ GtEps(prev_est[i]))
        => /\ ExtraIteration = Est(df)
           /\ MaxChange(ExtraIteration, Est(df)) = Zero

C6_Witness ==
    /\ pc = "after_loop"
    /\ converged
    /\ final_max_change = Zero
    /\ iteration >= 2
    /\ \A i \in 1..Len(prev_est) : prev_est[i] = Zero \/ GtEps(prev_est[i])
    /\ \E i, j \in 1..Len(df) :
          /\ i # j
          /\ IsPos(df[i].enrollment_est)
          /\ IsPos(df[j].enrollment_est)
    /\ ExtraIteration = Est(df)

\* C7 (vanishing group mass): in Step A and in Step B a group whose sum is at
\* or below the zero-guard has all its cells set to exactly 0, whatever its
\* target; and a cell that is 0 is still 0 after any step of the year's run.
C7_VanishingIsIrreversible ==
    [][ /\ pc = "stepA" =>
            \A i \in 1..Len(df) :
                ~GtEps(IcMass(i)) => df'[i].enrollment_est = Zero
        /\ pc = "stepB" =>
            \A i \in 1..Len(df) :
                ~GtEps(McMass(i)) => df'[i].enrollment_est = Zero
        /\ pc \in {"for_iter", "stepA", "stepB", "check", "after_loop"} =>
            /\ Len(df') = Len(df)
            /\ \A i \in 1..Len(df) :
                  df[i].enrollment_est = Zero => df'[i].enrollment_est = Zero
        /\ \A k \in 1..Len(results) : results'[k] = results[k]
      ]_vars

C7_Witness ==
    /\ pc = "for_iter"
    /\ iteration = 2
    /\ \E i \in 1..Len(df) :
          /\ IsPos(alloc[i].enrollment_est)
          /\ alloc[i].year = df[i].year
          /\ IsPos(ic_targets[i])
          /\ IsPos(mc_targets[i])
          /\ df[i].enrollment_est = Zero

RowsOfYear(tbl, y) == Len(YearRows(tbl, y))

\* Steps the run can still take: strictly smaller after every step, so a
\* run that is never stuck ends within Remaining steps.
YearCost == 4 * max_iter + 4

Remaining ==
    LET base == (Len(years) - yi) * YearCost + 1
        left == 4 * (max_iter - iteration)
    IN CASE pc = "done" -> 0
         [] pc = "for_yr" -> base
         [] pc = "after_loop" -> base + 1
         [] pc = "for_iter" -> base + left + 2
         [] pc = "check" -> base + left + 3
         [] pc = "stepB" -> base + left + 4
         [] pc = "stepA" -> base + left + 5

\* Steps A, B and the convergence check have no guard but their position.
NotStuck ==
    \/ pc \in {"stepA", "stepB", "check"}
    \/ ENABLED (StartYear \/ IterBegin \/ LoopExhausted \/ EndYear \/ Finish)

\* C8 (non-convergence is not fatal): the loop of a year never runs more than
\* max_iter iterations; a year that did not reach tol is flagged as not
\* converged and its table, as the last iteration left it, is appended to the
\* results; the run is never stuck before its end and every step brings the
\* end nearer, whatever converged; and at the end the rows of every year of
\* the input are in the returned table.
C8_NonConvergenceNotFatal ==
    /\ [](/\ iteration <= max_iter
          /\ Remaining >= 0
          /\ pc # "done" => NotStuck)
    /\ [][Remaining' < Remaining]_vars
    /\ []((pc = "for_yr" /\ yi >= 1) =>
            /\ Len(results) = yi
            /\ results[yi] = df
            /\ ~converged =>
                  /\ iteration = max_iter
                  /\ printed[Len(printed)] =
                        [year |-> years[yi], converged |-> FALSE,
                         iterations |-> max_iter,
                         change |-> final_max_change])
    /\ [](pc = "done" =>
            /\ allocated = Concat(results)
            /\ \A i \in 1..Len(alloc) :
                  RowsOfYear(allocated, alloc[i].year)
                      = RowsOfYear(alloc, alloc[i].year))

C8_Witness ==
    /\ pc = "done"
    /\ Len(printed) = 2
    /\ ~printed[1].converged
    /\ printed[1].year = 2020
    /\ printed[1].iterations = max_iter
    /\ max_iter >= 2
    /\ RowsOfYear(allocated, 2020) = 3
    /\ RowsOfYear(allocated, 2021) = 1

\* the relative change of cell i over the last iteration
CellChange(i) ==
    LET c == df[i].enrollment_est
        p == prev_est[i]
    IN Norm(Abs(c[1] * p[2] - p[1] * c[2]), c[2] * p[1])

Counted == {i \in 1..Len(prev_est) : GtEps(prev_est[i])}

\* C9 (convergence monitor): the change computed at the end of an iteration
\* is the largest |current - prior| / prior over exactly the cells whose
\* snapshot is above the zero-guard; the other cells never count, whatever
\* they became; with no cell above the guard the change is 0 and the solver
\* declares convergence.
C9_ConvergenceMonitor ==
    IterationDone =>
        /\ \A i \in Counted : ~RLt(final_max_change, CellChange(i))
        /\ Counted # {} => \E i \in Counted : final_max_change = CellChange(i)
        /\ Counted = {} => /\ final_max_change = Zero
                           /\ converged
                           /\ pc = "after_loop"

C9_Witness ==
    /\ IterationDone
    /\ Counted # {}
    /\ \E i \in 1..Len(df) :
          /\ i \notin Counted
          /\ IsPos(prev_est[i])
          /\ RLt(final_max_change, CellChange(i))

C9_WitnessVacuous ==
    /\ IterationDone
    /\ Counted = {}
    /\ \E i \in 1..Len(df) : /\ IsPos(prev_est[i])
                             /\ df[i].enrollment_est # prev_est[i]

\* C10 (MC margins at the end of an iteration): after Step B, until the next
\* iteration starts or the year's table is appended to the results, every
\* (metal tier, county) group sums to its MC target if its sum before Step B
\* was above the zero-guard, and to exactly 0 otherwise, even with a positive
\* MC target.
C10_McMarginsHold ==
    IterationDone =>
        \A i \in 1..Len(df) :
            IF GtEps(group_sums[i])
            THEN McTargetIs(df[i], McMass(i))
            ELSE McMass(i) = Zero

C10_Witness ==
    /\ IterationDone
    /\ \E i \in 1..Len(df) :
          /\ ~GtEps(group_sums[i])
          /\ IsPos(group_sums[i])
          /\ IsPos(mc_targets[i])
          /\ McMass(i) = Zero
    /\ \E j \in 1..Len(df) :
          /\ GtEps(group_sums[j])
          /\ IsPos(McMass(j))
          /\ IsPos(IcMass(j))
          /\ IcMass(j) # ic_targets[j]

=============================================================================
